---- MODULE Spec2Model ----
(***************************************************************************)
(* CharityCard.World (src/app.py): a Streamlit script that loads           *)
(* charities.csv once (memoised), filters it by a free-text term and two   *)
(* multi-selects, and shows the filtered frame ten records to a page.      *)
(*                                                                         *)
(* One action of the model is one run of the script from top to bottom:    *)
(* the first page load, or the rerun Streamlit starts after one widget     *)
(* changed.  Strings are tuples of one-character strings, so that          *)
(* lower-casing, substring and pattern search are computed rather than     *)
(* assumed.  A DataFrame is a record of its column set, its index labels   *)
(* and its rows (functions from column name to string).                    *)
(***************************************************************************)
EXTENDS Integers, Sequences, FiniteSets

VARIABLES
    file,               \* the CSV source on disk (never written by the app)
    cache,              \* st.cache_data's entry for load_data(DATA_FILE)
    ran,                \* the script has run at least once in this session
    df,                 \* module-level df of the last run
    search_term,        \* value of the text_input
    selected_causes,    \* value of the "Cause" multiselect
    selected_countries, \* value of the "Country" multiselect
    page,               \* value of the "Page" number_input used by the last run
    page_before,        \* value the session held for "Page" when the last run began
    df_filtered,        \* filtered frame of the last run
    total_pages,        \* total_pages of the last run
    page_data,          \* the slice shown by the last run
    messages            \* st.error / st.warning / st.info boxes of the last run

vars == <<file, cache, ran, df, search_term, selected_causes, selected_countries,
          page, page_before, df_filtered, total_pages, page_data, messages>>

(***************************************************************************)
(* Bounds of the model.                                                    *)
(***************************************************************************)
\* longest sequence of freely chosen rows in the source file
MaxRows == 2
\* longest source file built by cycling through the sample rows
MaxLongRows == 25
\* longest search term the user types
MaxTermLen == 1

Min(a, b) == IF a < b THEN a ELSE b
Max(a, b) == IF a > b THEN a ELSE b

(***************************************************************************)
(* Strings.                                                                *)
(***************************************************************************)
\* characters the user can type into the search box: a lower-case letter,
\* an upper-case letter and a regular-expression metacharacter
TermChars == {"w", "W", "."}

\* an empty CSV cell, which read_csv yields as NaN
NaN == <<>>

\* the sentinel of df.fillna("N/A")
NA == <<"N", "/", "A">>

\* str.lower() on one character of the alphabet
Lower(c) ==
    CASE c = "W" -> "w"
      [] c = "N" -> "n"
      [] c = "A" -> "a"
      [] c = "H" -> "h"
      [] c = "U" -> "u"
      [] OTHER   -> c

\* str.lower()
LowerStr(s) == [i \in 1..Len(s) |-> Lower(s[i])]

\* Series.str.contains(pat) with its default regex=True, i.e. re.search(pat, s),
\* for patterns over letters and "." (any character)
StrContains(s, pat) ==
    \E i \in 0..(Len(s) - Len(pat)) :
        \A j \in 1..Len(pat) : pat[j] = "." \/ pat[j] = s[i + j]

\* all strings over a character set up to a length
StringsUpTo(chars, n) == UNION {[1..k -> chars] : k \in 0..n}

(***************************************************************************)
(* DataFrames.                                                             *)
(***************************************************************************)
Frame(columns, index, rows) ==
    [none |-> FALSE, columns |-> columns, index |-> index, rows |-> rows]

\* Python's None, in the shape of a frame so that it compares with one
None == [none |-> TRUE, columns |-> {}, index |-> <<>>, rows |-> <<>>]

\* the positions at which a boolean Series is True, ascending
Positions(mask) == SelectSeq([i \in 1..Len(mask) |-> i], LAMBDA i : mask[i])

\* frame[mask]: boolean-mask indexing keeps the rows whose mask is True, with
\* their index labels, in the frame's order
BoolIndex(frame, mask) ==
    LET pos == Positions(mask)
    IN  Frame(frame.columns,
              [k \in 1..Len(pos) |-> frame.index[pos[k]]],
              [k \in 1..Len(pos) |-> frame.rows[pos[k]]])

\* frame.iloc[start:end] for start, end >= 0: Python slicing clips to the length
Iloc(frame, start, end) ==
    LET n  == Len(frame.rows)
        lo == Min(start, n)
        hi == Min(end, n)
    IN  IF lo >= hi
        THEN Frame(frame.columns, <<>>, <<>>)
        ELSE Frame(frame.columns,
                   SubSeq(frame.index, lo + 1, hi),
                   SubSeq(frame.rows, lo + 1, hi))

\* df.copy()
Copy(frame) == frame

(***************************************************************************)
(* The source file.                                                        *)
(***************************************************************************)
\* one CSV line: a value for every header the files of the model use
SampleRow(name, descr, focus, cat, country) ==
    [c \in {"Organisation Name", "Organisation_Name", "Short Description",
            "Category/Focus", "Category", "Country", "Unnamed: 9"} |->
        CASE c \in {"Organisation Name", "Organisation_Name"} -> name
          [] c = "Short Description" -> descr
          [] c = "Category/Focus"    -> focus
          [] c = "Category"          -> cat
          [] c = "Country"           -> country
          [] OTHER                   -> NaN]

SampleRows ==
    << SampleRow(<<"W", "e">>, NaN,            <<"e">>, <<"H">>,      <<"U">>),
       SampleRow(<<"e">>,      <<"e", "w">>,   NaN,     <<"H", "e">>, NaN),
       SampleRow(NaN,          <<"e">>,        <<"e">>, <<"H">>,      NaN),
       SampleRow(<<"w", "W">>, <<"W">>,        <<"e">>, <<"H", "e">>, <<"U">>) >>

\* header rows of the files of the model
Headers ==
    { {"Organisation Name", "Short Description", "Category/Focus", "Category",
       "Country", "Unnamed: 9"},
      {"Organisation_Name", "Short Description", "Country"},
      {"Category/Focus", "Category"},
      {"Category", "Country"} }

\* header row of the long files of the model
LongHeader ==
    {"Organisation Name", "Short Description", "Category/Focus", "Category"}

Restrict(f, S) == [c \in S |-> f[c]]

CsvFile(kind, header, lines) == [kind |-> kind, header |-> header, lines |-> lines]

Files ==
    {CsvFile("missing", {}, <<>>), CsvFile("malformed", {}, <<>>)}
    \cup {CsvFile("ok", h, [i \in 1..n |-> Restrict(SampleRows[pick[i]], h)]) :
            h \in Headers, n \in 0..MaxRows,
            pick \in [1..MaxRows -> 1..Len(SampleRows)]}
    \cup {CsvFile("ok", LongHeader,
                  [i \in 1..n |-> Restrict(SampleRows[((i - 1) % Len(SampleRows)) + 1],
                                           LongHeader)]) :
            n \in 0..MaxLongRows}

(***************************************************************************)
(* load_data (lines 13-47).                                                *)
(***************************************************************************)
\* the rename table of df.rename(columns={...})
Rename(c) ==
    CASE c = "Organisation Name" -> "Organisation_Name"
      [] c = "Short Description" -> "Short_Description"
      [] c = "Website URL"       -> "Website_URL"
      [] c = "Category/Focus"    -> "Category_Focus"
      [] c = "Contact Name"      -> "Contact_Name"
      [] OTHER                   -> c

\* df.drop(columns=['Unnamed: 9', 'Unnamed: 10'], errors='ignore')
Dropped == {"Unnamed: 9", "Unnamed: 10"}

\* df.fillna("N/A") on one cell
FillNa(v) == IF v = NaN THEN NA ELSE v

\* pd.read_csv followed by rename, drop and fillna; astype(str) leaves the string
\* cells of the model as they are.  The index is read_csv's RangeIndex 0..n-1.
Normalize(f) ==
    LET kept == {c \in f.header : c \notin Dropped}
        cols == {Rename(c) : c \in kept}
        src(col) == CHOOSE c \in kept : Rename(c) = col
    IN  Frame(cols,
              [i \in 1..Len(f.lines) |-> i - 1],
              [i \in 1..Len(f.lines) |-> [col \in cols |-> FillNa(f.lines[i][src(col)])]])

\* what load_data returns on a failed read: the mutant of load_data
LoadFailureAsEmptyFrame(f) ==
    IF f.kind = "ok"
    THEN [value |-> Normalize(f), errors |-> {}]
    ELSE [value |-> Frame({}, <<>>, <<>>), errors |-> {}]

\* load_data: the frame, or None with the st.error box of the except branch taken
load_data(f) ==
    CASE f.kind = "ok"      -> [value |-> Normalize(f), errors |-> {}]
      [] f.kind = "missing" -> [value |-> None, errors |-> {"error_not_found"}]
      [] OTHER              -> [value |-> None, errors |-> {"error_loading"}]

\* st.cache_data: no entry yet
NoEntry == [present |-> FALSE, value |-> None, errors |-> {}]

\* @st.cache_data: the first call runs the function and stores what it returned
\* and the boxes it drew; later calls replay the entry without reading the file
CachedLoad(entry, f) ==
    IF entry.present
    THEN entry
    ELSE [present |-> TRUE, value |-> load_data(f).value, errors |-> load_data(f).errors]

(***************************************************************************)
(* Filters (lines 62-95).                                                  *)
(***************************************************************************)
\* sorted(df[col].unique()) when the column exists, else []: the options of a
\* multiselect (a set here: the order only places the options on the screen)
Options(frame, col) ==
    IF col \in frame.columns
    THEN {frame.rows[i][col] : i \in 1..Len(frame.rows)}
    ELSE {}

\* the columns the text search looks at
SearchColumns == {"Organisation_Name", "Short_Description", "Category_Focus"}

\* row.str.lower().str.contains(term, na=False).any() over the search columns
RowMatches(row, search_cols, term) ==
    \E c \in search_cols : StrContains(LowerStr(row[c]), term)

\* a text search that collects the matches column by column: the mutant of
\* TextSearch (a record matching in two columns is listed twice, out of order)
TextSearchPerColumn(frame, columns, search_term_) ==
    LET search_cols == SearchColumns \cap columns
        term == LowerStr(search_term_)
        hits(c) == BoolIndex(frame, [i \in 1..Len(frame.rows) |->
                                        StrContains(LowerStr(frame.rows[i][c]), term)])
        cat(a, b) == Frame(frame.columns, a.index \o b.index, a.rows \o b.rows)
        empty == Frame(frame.columns, <<>>, <<>>)
        part(c) == IF c \in search_cols THEN hits(c) ELSE empty
    IN  IF search_term_ # <<>> /\ search_cols # {}
        THEN cat(cat(part("Organisation_Name"), part("Short_Description")),
                 part("Category_Focus"))
        ELSE frame

\* lines 80-87: the text search over the columns of df that exist
TextSearch(frame, columns, search_term_) ==
    LET search_cols == SearchColumns \cap columns
        term == LowerStr(search_term_)
    IN  IF search_term_ # <<>> /\ search_cols # {}
        THEN BoolIndex(frame, [i \in 1..Len(frame.rows) |->
                                  RowMatches(frame.rows[i], search_cols, term)])
        ELSE frame

\* df_filtered[col].isin(selected): a boolean Series, True where the value of
\* the column equals a member of selected
IsIn(frame, col, selected) ==
    [i \in 1..Len(frame.rows) |-> frame.rows[i][col] \in selected]

\* a membership filter applied even when nothing is selected: the mutant of IsInFilter
IsInFilterUnguarded(frame, col, selected) ==
    IF col \in frame.columns
    THEN BoolIndex(frame, IsIn(frame, col, selected))
    ELSE frame

\* lines 90-91 and 94-95: if selected and col in df_filtered.columns:
\*     df_filtered = df_filtered[df_filtered[col].isin(selected)]
IsInFilter(frame, col, selected) ==
    IF selected # {} /\ col \in frame.columns
    THEN BoolIndex(frame, IsIn(frame, col, selected))
    ELSE frame

\* lines 77-95
ApplyFilters(frame, term, causes, countries) ==
    IsInFilter(IsInFilter(TextSearch(Copy(frame), frame.columns, term),
                          "Category", causes),
               "Country", countries)

\* the filters mutate the frame they are given: the mutant of DfAfterFilters
DfFilteredInPlace(frame, filtered) == filtered

\* df after the filters ran: they work on df.copy() and on the new frames that
\* boolean indexing returns, so df is the frame load_data returned
DfAfterFilters(frame, filtered) == frame

(***************************************************************************)
(* Pagination (lines 98-108).                                              *)
(***************************************************************************)
items_per_page == 10

\* math.ceil(n / d) for n >= 0, d > 0
Ceil(n, d) == IF n % d = 0 THEN n \div d ELSE (n \div d) + 1

\* total pages without the floor of one page: the mutant of TotalPages
TotalPagesNoMax(total_orgs) == Ceil(total_orgs, items_per_page)

\* line 103
TotalPages(total_orgs) == Max(1, Ceil(total_orgs, items_per_page))

\* a page widget that keeps the value it held whatever its range: the mutant of
\* NumberInput
NumberInputKeepsValue(rendered, old_max, held, max_value) ==
    IF rendered THEN held ELSE 1

\* line 104: st.number_input("Page", min_value=1, max_value=total_pages, value=1).
\* The widget has no key, so its identity is its label and parameters: while
\* max_value is the one of the previous run the session's value (which the
\* widget kept within 1..max_value) is returned; with another max_value it is a
\* new widget and returns its default, value=1
NumberInput(rendered, old_max, held, max_value) ==
    IF rendered /\ old_max = max_value THEN held ELSE 1

\* a slice one record short: the mutant of PageData
PageDataShort(filtered, page_) ==
    Iloc(filtered, (page_ - 1) * items_per_page,
                   (page_ - 1) * items_per_page + items_per_page - 1)

\* lines 106-108
PageData(filtered, page_) ==
    LET start_idx == (page_ - 1) * items_per_page
        end_idx   == start_idx + items_per_page
    IN  Iloc(filtered, start_idx, end_idx)

(***************************************************************************)
(* The session.                                                            *)
(***************************************************************************)
Init ==
    /\ file \in Files
    /\ cache = NoEntry
    /\ ran = FALSE
    /\ df = None
    /\ search_term = <<>>
    /\ selected_causes = {}
    /\ selected_countries = {}
    /\ page = 0
    /\ page_before = 0
    /\ df_filtered = None
    /\ total_pages = 0
    /\ page_data = None
    /\ messages = {}

\* One run of the script (lines 49-153) with the widget values the browser
\* holds: term, causes, countries, and held, the value of the page widget.
Script(term, causes, countries, held) ==
    LET entry    == CachedLoad(cache, file)
        frame    == entry.value
        filtered == ApplyFilters(frame, term, causes, countries)
        pages    == TotalPages(Len(filtered.rows))
        shown    == NumberInput(ran, total_pages, held, pages)
        slice    == PageData(filtered, shown)
    IN  /\ file' = file
        /\ cache' = entry
        /\ ran' = TRUE
        /\ page_before' = held
        /\ IF frame.none
           THEN \* line 149-150: no widget is drawn, nothing is filtered
                /\ df' = None
                /\ UNCHANGED <<search_term, selected_causes, selected_countries, page,
                               df_filtered, total_pages, page_data>>
                /\ messages' = entry.errors \cup {"warning_could_not_load", "info_edit"}
           ELSE /\ df' = DfAfterFilters(frame, filtered)
                /\ search_term' = term
                /\ selected_causes' = causes
                /\ selected_countries' = countries
                /\ df_filtered' = filtered
                /\ total_pages' = pages
                /\ page' = shown
                /\ page_data' = slice
                /\ messages' = entry.errors
                               \cup (IF slice.rows = <<>> THEN {"warning_no_match"} ELSE {})
                               \cup {"info_edit"}

\* the browser opens the app: every widget is at its default
FirstRun ==
    /\ ~ran
    /\ Script(<<>>, {}, {}, 1)

\* the user reruns the app without touching a widget
Rerun ==
    /\ ran
    /\ Script(search_term, selected_causes, selected_countries, page)

\* the user edits the search box
ChangeSearch(term) ==
    /\ ran /\ ~df.none
    /\ term # search_term
    /\ Script(term, selected_causes, selected_countries, page)

\* the user changes the "Cause" selection, among the options the widget offers
ChangeCauses(causes) ==
    /\ ran /\ ~df.none
    /\ causes # selected_causes
    /\ Script(search_term, causes, selected_countries, page)

\* the user changes the "Country" selection
ChangeCountries(countries) ==
    /\ ran /\ ~df.none
    /\ countries # selected_countries
    /\ Script(search_term, selected_causes, countries, page)

\* the user picks a page within the range the widget shows
ChangePage(p) ==
    /\ ran /\ ~df.none
    /\ p # page
    /\ Script(search_term, selected_causes, selected_countries, p)

Next ==
    \/ FirstRun
    \/ Rerun
    \/ \E term \in StringsUpTo(TermChars, MaxTermLen) : ChangeSearch(term)
    \/ \E causes \in SUBSET Options(df, "Category") : ChangeCauses(causes)
    \/ \E countries \in SUBSET Options(df, "Country") : ChangeCountries(countries)
    \/ \E p \in 1..total_pages : ChangePage(p)

Spec == Init /\ [][Next]_vars

(***************************************************************************)
(* Properties.                                                             *)
(***************************************************************************)
\* the last run loaded a dataset and went through the filters and the pager
Loaded == ran /\ ~df.none

\* the record at position i of the dataset is in the filtered view
Kept(i) == \E k \in 1..Len(df_filtered.index) : df_filtered.index[k] = df.index[i]

\* t occurs in s as a literal, contiguous substring
IsSubstring(t, s) ==
    \E off \in 0..(Len(s) - Len(t)) : SubSeq(s, off + 1, off + Len(t)) = t

\* the free-text predicate as the specification states it: the lower-cased term
\* is a literal substring of the lower-cased value of a searchable attribute
\* the record has
LiteralMatch(row, term) ==
    \E c \in SearchColumns \cap DOMAIN row :
        IsSubstring(LowerStr(term), LowerStr(row[c]))

\* C1: the filtered view is an order-preserving subsequence of the dataset: its
\* index labels are strictly increasing labels of the dataset (so no record is
\* repeated and the order is the dataset's) and each of its records is the
\* dataset's record with that label.
SubsequenceLaw ==
    Loaded =>
        /\ df_filtered.columns = df.columns
        /\ Len(df_filtered.rows) = Len(df_filtered.index)
        /\ \A k \in 1..Len(df_filtered.index) :
              /\ df_filtered.index[k] \in 0..(Len(df.rows) - 1)
              /\ df_filtered.rows[k] = df.rows[df_filtered.index[k] + 1]
        /\ \A k \in 1..(Len(df_filtered.index) - 1) :
              df_filtered.index[k] < df_filtered.index[k + 1]

\* an active query kept two records and dropped one that lies between them
SubsequenceWitness ==
    /\ Loaded
    /\ search_term # <<>>
    /\ Len(df_filtered.rows) >= 2
    /\ \E k \in 1..(Len(df_filtered.index) - 1) :
          df_filtered.index[k + 1] > df_filtered.index[k] + 1

\* C2: with an empty search term and nothing selected in either multiselect the
\* filtered view is the dataset: same columns, same records, same order.
IdentityLaw ==
    (Loaded /\ search_term = <<>> /\ selected_causes = {} /\ selected_countries = {})
        => df_filtered = df

\* the empty query ran over a dataset of more than one page, every filterable
\* column present
IdentityWitness ==
    /\ Loaded
    /\ search_term = <<>> /\ selected_causes = {} /\ selected_countries = {}
    /\ "Category" \in df.columns
    /\ Len(df.rows) > items_per_page
    /\ Len(df_filtered.rows) = Len(df.rows)

\* C3, as stated: with a non-empty term (and no selection, so that the view is
\* the text search's result) a record is kept if and only if the term is a
\* literal substring, case-insensitively, of one of the three searchable
\* attributes.  Stated for datasets that have all three attributes.
TextSearchIsLiteralSubstring ==
    (/\ Loaded
     /\ search_term # <<>>
     /\ selected_causes = {} /\ selected_countries = {}
     /\ SearchColumns \subseteq df.columns)
        => \A i \in 1..Len(df.rows) : Kept(i) <=> LiteralMatch(df.rows[i], search_term)

\* C4, as stated: a record is in the filtered view if and only if it satisfies
\* every active predicate: the free-text predicate when the term is non-empty,
\* exact membership of its category when categories are selected, exact
\* membership of its country when countries are selected.  Stated for datasets
\* that have every searchable and filterable attribute.
ConjunctionOfActivePredicates ==
    (/\ Loaded
     /\ SearchColumns \cup {"Category", "Country"} \subseteq df.columns)
        => \A i \in 1..Len(df.rows) :
              Kept(i) <=>
                  /\ search_term = <<>> \/ LiteralMatch(df.rows[i], search_term)
                  /\ selected_causes = {} \/ df.rows[i]["Category"] \in selected_causes
                  /\ selected_countries = {}
                         \/ df.rows[i]["Country"] \in selected_countries

\* the pages 1..last of a view, one after the other, as the claim defines a
\* page: the records at offsets (p-1)*10 up to but excluding
\* min((p-1)*10 + 10, len(view))
RECURSIVE PagesConcatenated(_, _)
PagesConcatenated(view, last) ==
    IF last = 0 THEN <<>>
    ELSE PagesConcatenated(view, last - 1) \o PageData(view, last).rows

ClaimedSlice(seq, p) ==
    LET from == (p - 1) * 10
        to   == Min(from + 10, Len(seq))
    IN  [i \in 1..(to - from) |-> seq[from + i]]

\* C5: the pages 1..total_pages of the filtered view, concatenated in order, are
\* the filtered view, nothing repeated and nothing left out, and the page shown
\* holds the records at offsets (page-1)*10 up to but excluding
\* min((page-1)*10 + 10, len(view)).
PaginationCoverage ==
    Loaded =>
        /\ PagesConcatenated(df_filtered, total_pages) = df_filtered.rows
        /\ page_data.rows = ClaimedSlice(df_filtered.rows, page)
        /\ page_data.index = ClaimedSlice(df_filtered.index, page)

\* 25 records give 3 pages; page 3 holds the 5 records at offsets 20-24
PaginationWitness ==
    /\ Loaded
    /\ Len(df_filtered.rows) = 25
    /\ total_pages = 3
    /\ page = 3
    /\ page_data.index = <<20, 21, 22, 23, 24>>

\* the least k with k * d >= n
CeilingOf(n, d) == CHOOSE k \in 0..n : k * d >= n /\ (k = 0 \/ (k - 1) * d < n)

\* C6: total_pages is max(1, ceil(len(view) / 10)); an empty filtered view gives
\* one page, page 1 with zero records, shown with the no-match warning and no
\* error.
TotalPagesLaw ==
    Loaded =>
        /\ total_pages = Max(1, CeilingOf(Len(df_filtered.rows), 10))
        /\ df_filtered.rows = <<>> =>
              /\ total_pages = 1
              /\ page = 1
              /\ page_data.rows = <<>>
              /\ messages = {"warning_no_match", "info_edit"}

\* a non-empty dataset filtered down to nothing
EmptyViewWitness ==
    /\ Loaded
    /\ df.rows # <<>>
    /\ df_filtered.rows = <<>>
    /\ "warning_no_match" \in messages

\* C7: the page number used to slice the filtered view lies in 1..total_pages of
\* the current view, and past page 1 it starts inside the view.
PageInRange ==
    Loaded =>
        /\ 1 <= page /\ page <= total_pages
        /\ page = 1 \/ (page - 1) * items_per_page < Len(df_filtered.rows)

\* the session held a page beyond the last page of the view this run produced
PageShrinkWitness ==
    /\ Loaded
    /\ page_before > total_pages
    /\ page = 1

\* C8, as stated: with a non-empty term and none of the three searchable
\* attributes in the dataset, no record is kept.
MissingSearchAttributesMatchNothing ==
    (/\ Loaded
     /\ search_term # <<>>
     /\ SearchColumns \cap df.columns = {})
        => df_filtered.rows = <<>>

\* C9: after a failed load (file missing, or malformed) load_data has returned
\* None and drawn its error box, the run shows the could-not-load warning and
\* the closing info box, and nothing was filtered or paginated.
LoadFailureIsReported ==
    (ran /\ file.kind # "ok") =>
        /\ df = None
        /\ cache.value = None
        /\ file.kind = "missing" => "error_not_found" \in messages
        /\ file.kind = "malformed" => "error_loading" \in messages
        /\ {"warning_could_not_load", "info_edit"} \subseteq messages
        /\ df_filtered = None /\ page_data = None /\ total_pages = 0

\* a run over a malformed file
LoadFailureWitness ==
    /\ ran
    /\ file.kind = "malformed"
    /\ "warning_could_not_load" \in messages

\* C10: once loaded, the dataset never changes: every run leaves df as the run
\* before it left it.
DatasetImmutable == [][ran => df' = df]_vars

\* a search term, a category selection and a page change have all been applied,
\* and the view is a proper part of the dataset
DatasetImmutableWitness ==
    /\ Loaded
    /\ search_term # <<>>
    /\ selected_causes # {}
    /\ page > 1
    /\ Len(df_filtered.rows) < Len(df.rows)

====
